---- MODULE Spec2Model ----
(***************************************************************************)
(* Product Feed SKU Matcher (src/app.py): a Streamlit script.  Every user  *)
(* interaction re-executes the whole script top to bottom; the only state  *)
(* that survives a run is st.session_state and the widgets' values.        *)
(*                                                                         *)
(* Strings (column labels and cell texts) are sequences of one-character   *)
(* strings, so that strip(), lower() and f"{dup}_{count}" are computed on  *)
(* characters.  A cell is Null (pandas NaN/None) or a text.                *)
(***************************************************************************)
EXTENDS Integers, Sequences, FiniteSets, TLC

\* ---------------------------------------------------------------- bounds
\* Longest uploaded table, in rows.
MaxRows == 2
\* Longest header given to rename_duplicate_columns in SpecRename and to
\* load_file in SpecLoad.
MaxCols == 4
\* Most product records in an XML source.
MaxProducts == 2

\* --------------------------------------------------------------- strings
\* str.lower() on the characters that occur in the model.
LowerChar(c) ==
    CASE c = "A" -> "a"
      [] c = "B" -> "b"
      [] c = "C" -> "c"
      [] c = "I" -> "i"
      [] c = "D" -> "d"
      [] c = "K" -> "k"
      [] c = "N" -> "n"
      [] c = "P" -> "p"
      [] c = "S" -> "s"
      [] c = "U" -> "u"
      [] OTHER -> c

StrLower(s) == [i \in 1..Len(s) |-> LowerChar(s[i])]

IsSpace(c) == c = " "

RECURSIVE LStrip(_)
LStrip(s) == IF s # <<>> /\ IsSpace(Head(s)) THEN LStrip(Tail(s)) ELSE s

RECURSIVE RStrip(_)
RStrip(s) ==
    IF s # <<>> /\ IsSpace(s[Len(s)]) THEN RStrip(SubSeq(s, 1, Len(s) - 1)) ELSE s

\* str.strip(): leading and trailing whitespace removed.
StrStrip(s) == RStrip(LStrip(s))

\* str(count) for the counters of rename_duplicate_columns.
DigitChar(d) == CASE d = 0 -> "0" [] d = 1 -> "1" [] d = 2 -> "2" [] d = 3 -> "3"
                  [] d = 4 -> "4" [] d = 5 -> "5" [] d = 6 -> "6" [] d = 7 -> "7"
                  [] d = 8 -> "8" [] OTHER -> "9"

RECURSIVE IntToStr(_)
IntToStr(n) == IF n < 10 THEN <<DigitChar(n)>>
               ELSE IntToStr(n \div 10) \o <<DigitChar(n % 10)>>

\* ----------------------------------------------------------------- cells
Null == [kind |-> "null"]
Txt(s) == [kind |-> "str", s |-> s]
\* A cell of a column that read_csv inferred as int64.
Num(n) == [kind |-> "int", n |-> n]

\* .fillna('').astype(str)
AsStr(c) == IF c = Null THEN <<>> ELSE IF c.kind = "int" THEN IntToStr(c.n) ELSE c.s

\* .fillna('').astype(str).str.strip().str.lower()   (app.py:168-169)
NormKey(c) == Txt(StrLower(StrStrip(AsStr(c))))

\* The SKU normalization without its strip().
NormSkuNoStrip(c) == Txt(AsStr(c))

\* .fillna('').astype(str).str.strip()               (app.py:172-173)
NormSku(c) == Txt(StrStrip(AsStr(c)))

\* ------------------------------------------------------------- sequences
Range(s) == {s[i] : i \in 1..Len(s)}

RECURSIVE SeqsUpTo(_, _)
SeqsUpTo(S, n) ==
    IF n = 0 THEN {<<>>}
    ELSE LET shorter == SeqsUpTo(S, n - 1)
         IN  shorter \cup {Append(q, x) : q \in {r \in shorter : Len(r) = n - 1}, x \in S}

RECURSIVE SelectIdx(_, _, _)
\* The subsequence of s at the positions i (ascending) with keep[i].
SelectIdx(s, keep, i) ==
    IF i > Len(s) THEN <<>>
    ELSE (IF keep[i] THEN <<s[i]>> ELSE <<>>) \o SelectIdx(s, keep, i + 1)

RECURSIVE Flatten(_)
Flatten(ss) == IF ss = <<>> THEN <<>> ELSE Head(ss) \o Flatten(Tail(ss))

\* ------------------------------------------- rename_duplicate_columns
\* cols[cols.duplicated()].unique(): the labels that occur again after their
\* first occurrence, each once, in the order of those later occurrences.
RECURSIVE DuplicatedUnique(_, _, _)
DuplicatedUnique(cols, i, acc) ==
    IF i > Len(cols) THEN acc
    ELSE IF (\E j \in 1..(i - 1) : cols[j] = cols[i]) /\ cols[i] \notin Range(acc)
         THEN DuplicatedUnique(cols, i + 1, Append(acc, cols[i]))
         ELSE DuplicatedUnique(cols, i + 1, acc)

\* The suffixed label written at app.py:58.
SuffixedLabel(dup, count) == dup \o <<"_">> \o IntToStr(count)

\* One pass of the outer loop (app.py:53-59) for the label dup: the positions
\* holding dup now, the first skipped, the k-th renamed to dup_k.
RenameOccurrences(cols, dup) ==
    [i \in 1..Len(cols) |->
        LET count == Cardinality({j \in 1..i : cols[j] = dup})
        IN  IF cols[i] = dup /\ count > 1 THEN SuffixedLabel(dup, count) ELSE cols[i]]

RECURSIVE RenameLoop(_, _)
RenameLoop(cols, dups) ==
    IF dups = <<>> THEN cols
    ELSE RenameLoop(RenameOccurrences(cols, Head(dups)), Tail(dups))

rename_duplicate_columns(cols) == RenameLoop(cols, DuplicatedUnique(cols, 1, <<>>))

NoDuplicates(cols) == \A i, j \in 1..Len(cols) : cols[i] = cols[j] => i = j

\* ------------------------------------------------------------- relations
\* A DataFrame: cols is the header (labels), rows the records, each a
\* sequence of cells aligned with cols.
Rel(cols, rows) == [cols |-> cols, rows |-> rows]

HasCol(df, label) == label \in Range(df.cols)
ColIdx(df, label) == CHOOSE i \in 1..Len(df.cols) : df.cols[i] = label

\* df[label]
Column(df, label) == [i \in 1..Len(df.rows) |-> df.rows[i][ColIdx(df, label)]]

\* df[label] = values   (in place: the caller stores the result in the same name)
SetColumn(df, label, values) ==
    Rel(df.cols,
        [i \in 1..Len(df.rows) |->
            [c \in 1..Len(df.cols) |->
                IF c = ColIdx(df, label) THEN values[i] ELSE df.rows[i][c]]])

\* df[mask]
Filter(df, mask) == Rel(df.cols, SelectIdx(df.rows, mask, 1))

\* series.isin(values)
IsIn(series, values) == [i \in 1..Len(series) |-> series[i] \in Range(values)]

MATCH_KEY == <<"m", "a", "t", "c", "h", "_", "k", "e", "y">>
MASTER_SKU == <<"m", "a", "s", "t", "e", "r", "_", "s", "k", "u">>
SUPPLIER_SKU == <<"s", "u", "p", "p", "l", "i", "e", "r", "_", "s", "k", "u">>

\* ------------------------------------------------------------- ingestion
\* load_file (csv/xlsx branches): the parsed table with its header passed
\* through rename_duplicate_columns.
load_file(file) == Rel(rename_duplicate_columns(file.cols), file.rows)

\* The XML branch of load_file (app.py:29-41).  A product element is a record
\* of what findtext returns for its three sub-elements: Absent (None) when
\* the element is missing, else its text as a Txt, '' for an element without
\* text.
Absent == [kind |-> "absent"]

XML_COLUMNS ==
    << <<"S", "K", "U">>,
       <<"P", "r", "o", "d", "u", "c", "t", "_", "N", "a", "m", "e">>,
       <<"P", "r", "i", "c", "e">> >>

\* app.py:37: the three findtext results are not None.
ProductComplete(p) ==
    p.product_sku # Absent /\ p.product_name # Absent /\ p.price # Absent

\* app.py:38: x.strip() if x else None
StripOrNone(x) == IF x.s # <<>> THEN Txt(StrStrip(x.s)) ELSE Null

ProductRow(p) ==
    <<StripOrNone(p.product_sku), StripOrNone(p.product_name), StripOrNone(p.price)>>

load_file_xml(file) ==
    Rel(rename_duplicate_columns(XML_COLUMNS),
        [i \in 1..Len(SelectIdx(file.products,
                                [j \in 1..Len(file.products) |->
                                    ProductComplete(file.products[j])], 1)) |->
            ProductRow(SelectIdx(file.products,
                                 [j \in 1..Len(file.products) |->
                                     ProductComplete(file.products[j])], 1)[i])])

\* df.columns = df.columns.str.strip().str.lower()    (app.py:74, 99, 126)
NormalizeColumns(df) ==
    Rel([i \in 1..Len(df.cols) |-> StrLower(StrStrip(df.cols[i]))], df.rows)

\* What a run stores in session_state for an uploaded file.
Ingest(file) == NormalizeColumns(load_file(file))

\* --------------------------------------------------------------- matching
\* app.py:168 and 172 (master), 169 and 173 (supplier): the key column, then
\* the SKU column, rewritten in the DataFrame held by session_state.
NormalizeKeyColumn(df, key) ==
    SetColumn(df, key, [i \in 1..Len(df.rows) |-> NormKey(Column(df, key)[i])])

NormalizeSkuColumn(df, sku) ==
    SetColumn(df, sku, [i \in 1..Len(df.rows) |-> NormSku(Column(df, sku)[i])])

NormalizeInPlace(df, key, sku) == NormalizeSkuColumn(NormalizeKeyColumn(df, key), sku)

\* df.rename(columns={key: 'match_key', sku: skuName}); in the dict literal a
\* repeated key keeps its last value.   (app.py:181-188)
RenameForMerge(df, key, sku, skuName) ==
    Rel(rename_duplicate_columns(
            [i \in 1..Len(df.cols) |->
                IF df.cols[i] = sku THEN skuName
                ELSE IF df.cols[i] = key THEN MATCH_KEY
                ELSE df.cols[i]]),
        df.rows)

\* pd.merge raises KeyError when 'match_key' is not a column of both sides.
MergeRaises(left, right) == ~HasCol(left, MATCH_KEY) \/ ~HasCol(right, MATCH_KEY)

DropIdx(s, k) == SubSeq(s, 1, k - 1) \o SubSeq(s, k + 1, Len(s))

\* Header of the merge: the left columns, then the right ones without the
\* key; a label on both sides gets the suffixes _x and _y.
SuffixOverlap(lcols, rcols) ==
    [i \in 1..Len(lcols) |->
        IF lcols[i] # MATCH_KEY /\ lcols[i] \in Range(rcols)
        THEN lcols[i] \o <<"_", "x">> ELSE lcols[i]]
    \o
    [i \in 1..Len(rcols) |->
        IF rcols[i] \in Range(lcols) THEN rcols[i] \o <<"_", "y">> ELSE rcols[i]]

MergeCols(left, right) ==
    SuffixOverlap(left.cols, DropIdx(right.cols, ColIdx(right, MATCH_KEY)))

\* The right rows joined to left row i, in right order.
Pairs(lrow, hits, rkey) == [j \in 1..Len(hits) |-> lrow \o DropIdx(hits[j], rkey)]

FirstOnly(s) == IF s = <<>> THEN <<>> ELSE <<s[1]>>

\* As JoinedTo, but one pair per left row at most (a join collapsed to
\* one-to-one).
JoinedToFirstOnly(left, right, i) ==
    Pairs(left.rows[i],
          FirstOnly(SelectIdx(right.rows,
                              [j \in 1..Len(right.rows) |->
                                  Column(right, MATCH_KEY)[j] = Column(left, MATCH_KEY)[i]],
                              1)),
          ColIdx(right, MATCH_KEY))

JoinedTo(left, right, i) ==
    Pairs(left.rows[i],
          SelectIdx(right.rows,
                    [j \in 1..Len(right.rows) |->
                        Column(right, MATCH_KEY)[j] = Column(left, MATCH_KEY)[i]], 1),
          ColIdx(right, MATCH_KEY))

\* pd.merge(left, right, on='match_key', how='inner'): every pair of rows
\* with equal keys, in the order of the left rows.   (app.py:190-195)
Merge(left, right) ==
    Rel(MergeCols(left, right),
        Flatten([i \in 1..Len(left.rows) |-> JoinedTo(left, right, i)]))

\* matched_df[matched_df['master_sku'] != matched_df['supplier_sku']]  (app.py:199)
SkuMismatch(matched) ==
    Filter(matched,
           [i \in 1..Len(matched.rows) |->
               Column(matched, MASTER_SKU)[i] # Column(matched, SUPPLIER_SKU)[i]])

\* ------------------------------------------------------------- overwrite
\* df.drop_duplicates(subset='match_key'): the first row of every key.
FirstOfKey(k) == [i \in 1..Len(k) |-> \A j \in 1..(i - 1) : k[j] # k[i]]

DropDuplicates(df) == Filter(df, FirstOfKey(Column(df, MATCH_KEY)))

\* series.map(dedup.set_index('match_key')['supplier_sku'])
Lookup(series, k, v) ==
    [i \in 1..Len(series) |->
        IF \E j \in 1..Len(k) : k[j] = series[i]
        THEN v[CHOOSE j \in 1..Len(k) : k[j] = series[i]]
        ELSE Null]

MapToSupplierSku(series, dedup) ==
    Lookup(series, Column(dedup, MATCH_KEY), Column(dedup, SUPPLIER_SKU))

\* app.py:210-212: the copy of the stored master with the SKU of the rows
\* whose key cell is among the mismatch keys replaced.
AssignWhere(df, sku, mask, rhs) ==
    SetColumn(df, sku,
              [i \in 1..Len(df.rows) |-> IF mask[i] THEN rhs[i] ELSE Column(df, sku)[i]])

Overwritten(master, dedup, key, sku) ==
    AssignWhere(master, sku,
                IsIn(Column(master, key), Column(dedup, MATCH_KEY)),
                MapToSupplierSku(Column(master, key), dedup))

\* app.py:217: the stored supplier rows whose key cell is not a matched key.
Not(mask) == [i \in 1..Len(mask) |-> ~mask[i]]

Unmatched(supplier, matched, key) ==
    Filter(supplier, Not(IsIn(Column(supplier, key), Column(matched, MATCH_KEY))))

\* ---------------------------------------------------------- the session
VARIABLES
    master_file,      \* the file held by the master file_uploader, or NoFile
    supplier_file,    \* the file held by the supplier file_uploader, or NoFile
    session_state,    \* st.session_state: a function on the keys it holds
    step4,            \* what the last run did at app.py:150-206
    overwrote,        \* whether the last run executed app.py:210-222
    local_mismatch,   \* the local sku_mismatch_df (app.py:199) of the last run
    labels,           \* SpecRename: the header given to the resolver
    resolved,         \* SpecRename: rename_duplicate_columns(labels)
    resolved_again,   \* SpecRename: the resolver applied to resolved
    rename_pc,        \* SpecRename: "input", "once" or "twice"
    source,           \* SpecLoad: the file given to load_file
    loaded,           \* SpecLoad: the DataFrame made available from it
    load_pc           \* SpecLoad: "file" or "loaded"

vars == <<master_file, supplier_file, session_state,
          step4, overwrote, local_mismatch, labels, resolved, resolved_again, rename_pc,
          source, loaded, load_pc>>

sessionVars == <<master_file, supplier_file, session_state, step4, overwrote, local_mismatch>>
renameVars == <<labels, resolved, resolved_again, rename_pc>>
loadVars == <<source, loaded, load_pc>>

NoFile == [kind |-> "nofile"]
NoFrame == [kind |-> "none"]

Has(ss, k) == k \in DOMAIN ss
Put(ss, k, v) == (k :> v) @@ ss

\* The uploaded tables.  Headers as typed in the files; pandas keeps the
\* blanks of a cell and reads an empty cell as NaN.
MasterHeader == << <<"I", "D">>, <<"S", "k", "u", " ">> >>
SupplierHeader == << <<" ", "i", "d">>, <<"S", "K", "U">> >>

MasterRowSet ==
    { <<Txt(<<"K">>), Txt(<<" ", "A">>)>>,
      <<Txt(<<"k">>), Txt(<<"C">>)>> }

SupplierRowSet ==
    { <<Txt(<<"k">>), Txt(<<"A">>)>>,
      <<Txt(<<"K", " ">>), Null>> }

MasterFiles == {Rel(MasterHeader, r) : r \in SeqsUpTo(MasterRowSet, MaxRows) \ {<<>>}}
SupplierFiles == {Rel(SupplierHeader, r) : r \in SeqsUpTo(SupplierRowSet, MaxRows) \ {<<>>}}

\* --------------------------------------------------------- one script run
\* Step 1 (app.py:70-84)
Step1(ss, mf, sku, key) ==
    IF mf = NoFile THEN ss
    ELSE Put(Put(Put(ss, "master_df", Ingest(mf)), "sku_name_master", sku),
             "match_key_master", key)

\* Step 2 (app.py:92-103)
Step2(ss, sf) == IF sf = NoFile THEN ss ELSE Put(ss, "supplier_df", Ingest(sf))

\* Step 3 (app.py:136-144)
Step3(ss, sku, key) ==
    IF Has(ss, "supplier_df")
    THEN Put(Put(ss, "sku_name_supplier", sku), "match_key_supplier", key)
    ELSE ss

\* app.py:158-166: the four selectors are columns of their DataFrames.
SelectorsValid(ss) ==
    /\ HasCol(ss.master_df, ss.match_key_master)
    /\ HasCol(ss.supplier_df, ss.match_key_supplier)
    /\ HasCol(ss.master_df, ss.sku_name_master)
    /\ HasCol(ss.supplier_df, ss.sku_name_supplier)

\* app.py:199-202: the mismatch rows, stored only when there are some.
StoreMismatch(ss, mismatch) ==
    [ss |-> IF mismatch.rows # <<>> THEN Put(ss, "sku_mismatch_df", mismatch) ELSE ss,
     step4 |-> "match", mismatch |-> mismatch]

\* app.py:196-199
StoreMatched(ss, matched) ==
    StoreMismatch(Put(ss, "matched_df", matched), SkuMismatch(matched))

\* app.py:190-206: the merge, or the KeyError handler and st.stop().
MergeOrStop(ss, left, right) ==
    IF MergeRaises(left, right)
    THEN [ss |-> ss, step4 |-> "stopped", mismatch |-> NoFrame]
    ELSE StoreMatched(ss, Merge(left, right))

\* app.py:168-188, with m and s the DataFrames after the normalization: they
\* are the objects session_state holds, so the session holds them normalized.
MatchNormalized(ss, m, s) ==
    MergeOrStop(Put(Put(ss, "master_df", m), "supplier_df", s),
                RenameForMerge(m, ss.match_key_master, ss.sku_name_master, MASTER_SKU),
                RenameForMerge(s, ss.match_key_supplier, ss.sku_name_supplier, SUPPLIER_SKU))

\* The match of Step 4 (app.py:151-206), entered with the session as Steps
\* 1-3 left it.  Gives the session after it, how it ended and the local
\* sku_mismatch_df.
Step4Match(ss) ==
    IF ~SelectorsValid(ss) THEN [ss |-> ss, step4 |-> "stopped", mismatch |-> NoFrame]
    ELSE MatchNormalized(
             ss,
             NormalizeInPlace(ss.master_df, ss.match_key_master, ss.sku_name_master),
             NormalizeInPlace(ss.supplier_df, ss.match_key_supplier, ss.sku_name_supplier))

\* app.py:213-219
StoreOutputs(ss, updated, nUpdated, unmatched) ==
    Put(Put(Put(Put(ss, "updated_df", updated), "skus_updated", nUpdated),
            "unmatched_df", unmatched),
        "products_not_in_master", Len(unmatched.rows))

\* As OverwriteWith, but the SKUs are assigned into the stored master itself
\* instead of a copy of it.
OverwriteWithInPlace(ss, dedup) ==
    StoreOutputs(Put(ss, "master_df",
                     Overwritten(ss.master_df, dedup, ss.match_key_master,
                                 ss.sku_name_master)),
                 Overwritten(ss.master_df, dedup, ss.match_key_master, ss.sku_name_master),
                 Len(dedup.rows),
                 Unmatched(ss.supplier_df, ss.matched_df, ss.match_key_supplier))

\* app.py:211-214, with dedup the deduplicated mismatch rows.
OverwriteWith(ss, dedup) ==
    StoreOutputs(ss,
                 Overwritten(ss.master_df, dedup, ss.match_key_master, ss.sku_name_master),
                 Len(dedup.rows),
                 Unmatched(ss.supplier_df, ss.matched_df, ss.match_key_supplier))

\* The overwrite handler (app.py:210-219).
Overwrite(ss) == OverwriteWith(ss, DropDuplicates(ss.sku_mismatch_df))

\* As Step4Overwrite, but the handler runs whenever a mismatch set is stored,
\* whether or not its button was clicked.
Step4OverwriteUnasked(m, overwriteBtn) ==
    IF m.step4 # "stopped" /\ Has(m.ss, "sku_mismatch_df")
    THEN [ss |-> Overwrite(m.ss), step4 |-> m.step4, overwrote |-> overwriteBtn,
          mismatch |-> m.mismatch]
    ELSE [ss |-> m.ss, step4 |-> m.step4, overwrote |-> FALSE, mismatch |-> m.mismatch]

\* app.py:209-222, with m what the first half of Step 4 gave.
Step4Overwrite(m, overwriteBtn) ==
    IF m.step4 # "stopped" /\ Has(m.ss, "sku_mismatch_df") /\ overwriteBtn
    THEN [ss |-> Overwrite(m.ss), step4 |-> m.step4, overwrote |-> TRUE,
          mismatch |-> m.mismatch]
    ELSE [ss |-> m.ss, step4 |-> m.step4, overwrote |-> FALSE, mismatch |-> m.mismatch]

\* Step 4 (app.py:147-222)
Step4(ss, matchBtn, overwriteBtn) ==
    IF ~(Has(ss, "master_df") /\ Has(ss, "supplier_df"))
    THEN [ss |-> ss, step4 |-> "none", overwrote |-> FALSE, mismatch |-> NoFrame]
    ELSE Step4Overwrite(
             IF matchBtn \/ ~Has(ss, "matched_df") THEN Step4Match(ss)
             ELSE [ss |-> ss, step4 |-> "skip", mismatch |-> NoFrame],
             overwriteBtn)

\* The end of a run: what it leaves behind.
EndRun(r, mf, sf) ==
    /\ session_state' = r.ss
    /\ step4' = r.step4
    /\ overwrote' = r.overwrote
    /\ local_mismatch' = r.mismatch
    /\ master_file' = mf
    /\ supplier_file' = sf
    /\ UNCHANGED renameVars
    /\ UNCHANGED loadVars

\* One execution of the script with the widgets returning these values.
RunScript(mf, sf, skuM, keyM, skuS, keyS, matchBtn, overwriteBtn) ==
    EndRun(Step4(Step3(Step2(Step1(session_state, mf, skuM, keyM), sf), skuS, keyS),
                 matchBtn, overwriteBtn),
           mf, sf)

MasterOptions == Ingest(master_file)
SupplierOptions == session_state.supplier_df

\* The buttons are rendered by the previous run.
MatchButtonShown == Has(session_state, "master_df") /\ Has(session_state, "supplier_df")
OverwriteButtonShown ==
    MatchButtonShown /\ step4 # "stopped" /\ Has(session_state, "sku_mismatch_df")

\* ------------------------------------------------------ user interactions
\* The session is followed from the empty uploaders on; each uploader
\* receives its file once and keeps it, so every run reloads both files.
\*
\* The value a selectbox returns when nobody touched it: the option chosen
\* before, which the previous run copied into session_state; a selectbox
\* rendered for the first time returns its first option.
MasterSel(k, mf) ==
    IF Has(session_state, k) THEN session_state[k]
    ELSE IF mf # NoFile THEN Ingest(mf).cols[1] ELSE <<>>

SupplierSel(k, sf) ==
    IF Has(session_state, k) THEN session_state[k]
    ELSE IF sf # NoFile THEN Ingest(sf).cols[1] ELSE <<>>

\* A run in which every selectbox returns what it returned before.
RunAsSelected(mf, sf, matchBtn, overwriteBtn) ==
    RunScript(mf, sf,
              MasterSel("sku_name_master", mf), MasterSel("match_key_master", mf),
              SupplierSel("sku_name_supplier", sf), SupplierSel("match_key_supplier", sf),
              matchBtn, overwriteBtn)

UploadMaster(f) ==
    /\ master_file = NoFile
    /\ RunAsSelected(f, supplier_file, FALSE, FALSE)

UploadSupplier(f) ==
    /\ supplier_file = NoFile
    /\ RunAsSelected(master_file, f, FALSE, FALSE)

SelectMasterSku(c) ==
    /\ master_file # NoFile
    /\ c \in Range(MasterOptions.cols) \ {session_state.sku_name_master}
    /\ RunScript(master_file, supplier_file, c, MasterSel("match_key_master", master_file),
                 SupplierSel("sku_name_supplier", supplier_file),
                 SupplierSel("match_key_supplier", supplier_file), FALSE, FALSE)

SelectMasterKey(c) ==
    /\ master_file # NoFile
    /\ c \in Range(MasterOptions.cols) \ {session_state.match_key_master}
    /\ RunScript(master_file, supplier_file, MasterSel("sku_name_master", master_file), c,
                 SupplierSel("sku_name_supplier", supplier_file),
                 SupplierSel("match_key_supplier", supplier_file), FALSE, FALSE)

SelectSupplierSku(c) ==
    /\ Has(session_state, "supplier_df")
    /\ c \in Range(SupplierOptions.cols) \ {session_state.sku_name_supplier}
    /\ RunScript(master_file, supplier_file, MasterSel("sku_name_master", master_file),
                 MasterSel("match_key_master", master_file), c,
                 SupplierSel("match_key_supplier", supplier_file), FALSE, FALSE)

SelectSupplierKey(c) ==
    /\ Has(session_state, "supplier_df")
    /\ c \in Range(SupplierOptions.cols) \ {session_state.match_key_supplier}
    /\ RunScript(master_file, supplier_file, MasterSel("sku_name_master", master_file),
                 MasterSel("match_key_master", master_file),
                 SupplierSel("sku_name_supplier", supplier_file), c, FALSE, FALSE)

\* "Match Products and Update SKUs" (app.py:150)
ClickMatch ==
    /\ MatchButtonShown
    /\ RunAsSelected(master_file, supplier_file, TRUE, FALSE)

\* "Overwrite Master SKUs with Supplier SKUs where mismatched" (app.py:209)
ClickOverwrite ==
    /\ OverwriteButtonShown
    /\ RunAsSelected(master_file, supplier_file, FALSE, TRUE)

\* Any other interaction (a download button, the Rerun command).
Rerun ==
    /\ master_file # NoFile \/ supplier_file # NoFile
    /\ RunAsSelected(master_file, supplier_file, FALSE, FALSE)

Init ==
    /\ master_file = NoFile
    /\ supplier_file = NoFile
    /\ session_state = << >>
    /\ step4 = "none"
    /\ overwrote = FALSE
    /\ local_mismatch = NoFrame
    /\ labels = << >>
    /\ resolved = << >>
    /\ resolved_again = << >>
    /\ rename_pc = "input"
    /\ source = NoFile
    /\ loaded = NoFrame
    /\ load_pc = "file"

Next ==
    \/ \E f \in MasterFiles : UploadMaster(f)
    \/ \E f \in SupplierFiles : UploadSupplier(f)
    \/ \E c \in Range(Ingest(Rel(MasterHeader, <<>>)).cols) : SelectMasterSku(c)
    \/ \E c \in Range(Ingest(Rel(MasterHeader, <<>>)).cols) : SelectMasterKey(c)
    \/ \E c \in Range(Ingest(Rel(SupplierHeader, <<>>)).cols) : SelectSupplierSku(c)
    \/ \E c \in Range(Ingest(Rel(SupplierHeader, <<>>)).cols) : SelectSupplierKey(c)
    \/ ClickMatch
    \/ ClickOverwrite
    \/ Rerun

Spec == Init /\ [][Next]_vars

\* ------------------------------------------- the resolver on its own
LabelSet == { <<"a">>, <<"b">>, <<"a", "_", "2">> }

InitRename ==
    /\ master_file = NoFile
    /\ supplier_file = NoFile
    /\ session_state = << >>
    /\ step4 = "none"
    /\ overwrote = FALSE
    /\ local_mismatch = NoFrame
    /\ labels \in SeqsUpTo(LabelSet, MaxCols)
    /\ resolved = << >>
    /\ resolved_again = << >>
    /\ rename_pc = "input"
    /\ source = NoFile
    /\ loaded = NoFrame
    /\ load_pc = "file"

ResolveOnce ==
    /\ rename_pc = "input"
    /\ resolved' = rename_duplicate_columns(labels)
    /\ rename_pc' = "once"
    /\ UNCHANGED <<labels, resolved_again>>
    /\ UNCHANGED sessionVars
    /\ UNCHANGED loadVars

ResolveAgain ==
    /\ rename_pc = "once"
    /\ resolved_again' = rename_duplicate_columns(resolved)
    /\ rename_pc' = "twice"
    /\ UNCHANGED <<labels, resolved>>
    /\ UNCHANGED sessionVars
    /\ UNCHANGED loadVars

NextRename == ResolveOnce \/ ResolveAgain

SpecRename == InitRename /\ [][NextRename]_vars

\* ------------------------------------------- the session on two catalogs
\* The session of Spec on the catalogs master = [(1, A), (2, B)] and
\* supplier = [(1, A2), (3, C)].  read_csv infers int64 for a column of
\* digits; a spreadsheet column of text cells is read as text.
KeyCells == {"int", "text"}
KeyCell(kind, n) == IF kind = "int" THEN Num(n) ELSE Txt(IntToStr(n))

CatalogMaster(kind) ==
    Rel(MasterHeader,
        << <<KeyCell(kind, 1), Txt(<<"A">>)>>, <<KeyCell(kind, 2), Txt(<<"B">>)>> >>)

CatalogSupplier(kind) ==
    Rel(SupplierHeader,
        << <<KeyCell(kind, 1), Txt(<<"A", "2">>)>>, <<KeyCell(kind, 3), Txt(<<"C">>)>> >>)

NextCatalogs ==
    \/ \E k \in KeyCells : UploadMaster(CatalogMaster(k))
    \/ \E k \in KeyCells : UploadSupplier(CatalogSupplier(k))
    \/ \E c \in Range(Ingest(Rel(MasterHeader, <<>>)).cols) : SelectMasterSku(c)
    \/ \E c \in Range(Ingest(Rel(MasterHeader, <<>>)).cols) : SelectMasterKey(c)
    \/ \E c \in Range(Ingest(Rel(SupplierHeader, <<>>)).cols) : SelectSupplierSku(c)
    \/ \E c \in Range(Ingest(Rel(SupplierHeader, <<>>)).cols) : SelectSupplierKey(c)
    \/ ClickMatch
    \/ ClickOverwrite
    \/ Rerun

SpecCatalogs == Init /\ [][NextCatalogs]_vars

\* ------------------------------------------------ load_file on its own
\* One file goes through Step 1 (app.py:70-78): load_file by its file type,
\* then the column names trimmed and lowercased.
\*
\* Headers as read_csv / read_excel hand them over: the parser has already
\* made exact repetitions distinct, so the raw labels are pairwise distinct;
\* they may still differ in case or blanks only.
HeaderLabelSet == { <<"a">>, <<"A">>, <<"a", " ">>, <<"b">> }

TableSources ==
    {[file_type |-> "csv", file |-> Rel(h, <<>>)] :
        h \in {q \in SeqsUpTo(HeaderLabelSet, MaxCols) : q # <<>> /\ NoDuplicates(q)}}

XmlTextSet == {Absent, Txt(<<>>), Txt(<<"x", " ">>)}

XmlProducts ==
    {[product_sku |-> s, product_name |-> n, price |-> p] :
        s \in XmlTextSet, n \in XmlTextSet, p \in XmlTextSet}

XmlSources ==
    {[file_type |-> "xml", file |-> [products |-> ps]] :
        ps \in SeqsUpTo(XmlProducts, MaxProducts)}

InitLoad ==
    /\ master_file = NoFile
    /\ supplier_file = NoFile
    /\ session_state = << >>
    /\ step4 = "none"
    /\ overwrote = FALSE
    /\ local_mismatch = NoFrame
    /\ labels = << >>
    /\ resolved = << >>
    /\ resolved_again = << >>
    /\ rename_pc = "input"
    /\ source \in TableSources \cup XmlSources
    /\ loaded = NoFrame
    /\ load_pc = "file"

\* app.py:12-28 and 74
LoadTable ==
    /\ load_pc = "file"
    /\ source.file_type \in {"csv", "xlsx"}
    /\ loaded' = NormalizeColumns(load_file(source.file))
    /\ load_pc' = "loaded"
    /\ UNCHANGED source
    /\ UNCHANGED sessionVars
    /\ UNCHANGED renameVars

\* app.py:29-41 and 74
LoadXml ==
    /\ load_pc = "file"
    /\ source.file_type = "xml"
    /\ loaded' = NormalizeColumns(load_file_xml(source.file))
    /\ load_pc' = "loaded"
    /\ UNCHANGED source
    /\ UNCHANGED sessionVars
    /\ UNCHANGED renameVars

NextLoad == LoadTable \/ LoadXml

SpecLoad == InitLoad /\ [][NextLoad]_vars

\* ================================================================ claims
\* The normalized key as the specification words it: null replaced by the
\* empty string, trimmed, lowercased.
SpecKey(c) == StrLower(StrStrip(IF c = Null THEN <<>> ELSE c.s))
\* The trimmed SKU as the specification words it (null treated as empty).
SpecSku(c) == StrStrip(IF c = Null THEN <<>> ELSE c.s)

\* The relations the last run was given, as loaded, and the selectors.
GivenMaster == Ingest(master_file)
GivenSupplier == Ingest(supplier_file)
KeyM == session_state.match_key_master
KeyS == session_state.match_key_supplier
SkuM == session_state.sku_name_master
SkuS == session_state.sku_name_supplier

Matched == session_state.matched_df
MatchedKeys == {c.s : c \in Range(Column(Matched, MATCH_KEY))}

MasterRowsOfKey(k) ==
    Cardinality({i \in 1..Len(GivenMaster.rows) : SpecKey(Column(GivenMaster, KeyM)[i]) = k})
SupplierRowsOfKey(k) ==
    Cardinality({i \in 1..Len(GivenSupplier.rows) :
                    SpecKey(Column(GivenSupplier, KeyS)[i]) = k})
MatchedRowsOfKey(k) ==
    Cardinality({i \in 1..Len(Matched.rows) : Column(Matched, MATCH_KEY)[i] = Txt(k)})

KeysInPlay ==
    {SpecKey(c) : c \in Range(Column(GivenMaster, KeyM))}
    \cup {SpecKey(c) : c \in Range(Column(GivenSupplier, KeyS))}
    \cup MatchedKeys

\* C1: after a match, for every key value k the matched relation holds
\* exactly (master rows whose normalized key is k) x (supplier rows whose
\* normalized key is k) rows for k, the normalized key being the selected
\* key column with null as the empty string, trimmed and lowercased.
C1_MatchIsCrossProduct ==
    step4 = "match" =>
        \A k \in KeysInPlay : MatchedRowsOfKey(k) = MasterRowsOfKey(k) * SupplierRowsOfKey(k)

\* A match in which a key repeated on both sides, written in different case
\* and with blanks on the two sides, gave the four pairs.
C1_Witness ==
    /\ step4 = "match"
    /\ \E k \in KeysInPlay :
          /\ MasterRowsOfKey(k) = 2 /\ SupplierRowsOfKey(k) = 2 /\ MatchedRowsOfKey(k) = 4
          /\ \E c \in Range(Column(GivenMaster, KeyM)), d \in Range(Column(GivenSupplier, KeyS)) :
                SpecKey(c) = k /\ SpecKey(d) = k /\ c # d

\* The supplier rows the claim calls unmatched: normalized key absent from
\* the keys of the matched relation.
SpecUnmatchedRows ==
    SelectIdx(session_state.supplier_df.rows,
              [i \in 1..Len(session_state.supplier_df.rows) |->
                  SpecKey(Column(session_state.supplier_df, KeyS)[i]) \notin MatchedKeys],
              1)

\* C2: after an overwrite, the unmatched relation holds exactly the supplier
\* rows whose normalized key is absent from the keys of the matched relation,
\* and products_not_in_master is its row count.
C2_UnmatchedUsesNormalizedKey ==
    overwrote =>
        /\ session_state.unmatched_df.rows = SpecUnmatchedRows
        /\ session_state.products_not_in_master = Len(SpecUnmatchedRows)

\* The mismatch rows the overwrite consumed, deduplicated by key (first kept).
Mismatch == session_state.sku_mismatch_df
MismatchKeys == {c.s : c \in Range(Column(Mismatch, MATCH_KEY))}
FirstMismatchOf(k) ==
    Mismatch.rows[CHOOSE i \in 1..Len(Mismatch.rows) :
                     /\ Column(Mismatch, MATCH_KEY)[i] = Txt(k)
                     /\ \A j \in 1..(i - 1) : Column(Mismatch, MATCH_KEY)[j] # Txt(k)]
FirstSupplierSkuOf(k) == FirstMismatchOf(k)[ColIdx(Mismatch, SUPPLIER_SKU)]

Updated == session_state.updated_df
StoredMaster == session_state.master_df

\* C3: after an overwrite, every master row whose key, normalized as for the
\* join, is a key of the mismatch set has as its SKU the supplier_sku of the
\* first mismatch record of that key.
C3_OverwriteEveryRowOfKey ==
    overwrote =>
        \A i \in 1..Len(StoredMaster.rows) :
            SpecKey(Column(StoredMaster, KeyM)[i]) \in MismatchKeys =>
                Column(Updated, SkuM)[i]
                    = FirstSupplierSkuOf(SpecKey(Column(StoredMaster, KeyM)[i]))

\* C4: after an overwrite, the reconciled master has the rows of the master
\* in the same order; a row whose key has no mismatch entry is identical to
\* the master's, and in the other rows only the SKU column differs: the key
\* column and all other columns keep the master's values.
C4_OverwriteFrame ==
    overwrote =>
        /\ Updated.cols = StoredMaster.cols
        /\ Len(Updated.rows) = Len(StoredMaster.rows)
        /\ \A i \in 1..Len(StoredMaster.rows) :
              /\ SpecKey(Column(StoredMaster, KeyM)[i]) \notin MismatchKeys =>
                    Updated.rows[i] = StoredMaster.rows[i]
              /\ Column(Updated, KeyM)[i] = Column(StoredMaster, KeyM)[i]
              /\ \A c \in 1..Len(StoredMaster.cols) :
                    StoredMaster.cols[c] # SkuM =>
                        Updated.rows[i][c] = StoredMaster.rows[i][c]

\* C5: after a match, the mismatch set is the subsequence of the matched
\* relation, in its order, of the rows whose trimmed master_sku differs from
\* the trimmed supplier_sku (case-sensitive, null as empty).
C5_MismatchIffTrimmedSkusDiffer ==
    step4 = "match" =>
        local_mismatch.rows
            = SelectIdx(Matched.rows,
                        [i \in 1..Len(Matched.rows) |->
                            SpecSku(Column(Matched, MASTER_SKU)[i])
                                # SpecSku(Column(Matched, SUPPLIER_SKU)[i])],
                        1)

\* A match with a mismatch row and a row left out of the mismatch set whose
\* SKUs as loaded differ only in blanks.
C5_Witness ==
    /\ step4 = "match"
    /\ local_mismatch.rows # <<>>
    /\ Len(local_mismatch.rows) < Len(Matched.rows)
    /\ \E c \in Range(Column(GivenMaster, SkuM)), d \in Range(Column(GivenSupplier, SkuS)) :
          c # d /\ SpecSku(c) = SpecSku(d)
          /\ \E i \in 1..Len(Matched.rows) :
                /\ Column(Matched, MASTER_SKU)[i] = Txt(SpecSku(c))
                /\ Column(Matched, SUPPLIER_SKU)[i] = Txt(SpecSku(d))

\* The master rows the overwrite assigned a SKU to.
ReplacedRows ==
    {i \in 1..Len(StoredMaster.rows) :
        Column(StoredMaster, KeyM)[i] \in Range(Column(Mismatch, MATCH_KEY))}

\* C6: after an overwrite, skus_updated is the number of master rows whose
\* SKU the overwrite replaced, each affected row counted.
C6_CountIsRowsReplaced ==
    overwrote => session_state.skus_updated = Cardinality(ReplacedRows)

\* C7: the labels rename_duplicate_columns returns are pairwise distinct.
C7_ResolverLeavesNoDuplicates ==
    rename_pc # "input" => NoDuplicates(resolved)

\* C8: resolving twice equals resolving once, and a duplicate-free header is
\* returned unchanged.
C8_ResolverIdempotent ==
    /\ rename_pc = "twice" => resolved_again = resolved
    /\ rename_pc # "input" /\ NoDuplicates(labels) => resolved = labels

\* C9: a match leaves the relations it was given unchanged: the stored
\* master_df and supplier_df have the column names and cell values they had
\* when the match began.
C9_MatchLeavesInputsUnchanged ==
    step4 = "match" =>
        /\ session_state.master_df = GivenMaster
        /\ session_state.supplier_df = GivenSupplier

\* What the overwrite stores when it follows a match of the relations now
\* loaded under the selectors now selected.
SessionNow ==
    Step3(Step2(Step1(<< >>, master_file, SkuM, KeyM), supplier_file), SkuS, KeyS)
MatchNow == Step4Match(SessionNow)
ReloadedAfter(ss) == Put(Put(ss, "master_df", GivenMaster), "supplier_df", GivenSupplier)
OutputsNow == Overwrite(ReloadedAfter(MatchNow.ss))
OutputKeys == {"updated_df", "unmatched_df", "skus_updated", "products_not_in_master"}

\* C10: the outputs of an overwrite are a function of the loaded relations
\* and the four selectors alone: they are the outputs of the overwrite that
\* follows a match of these relations under these selectors.
C10_OutputsDependOnInputsOnly ==
    (overwrote /\ MatchNow.step4 = "match" /\ Has(MatchNow.ss, "sku_mismatch_df")) =>
        \A k \in OutputKeys : session_state[k] = OutputsNow[k]

\* What session_state holds under a key, NoFrame when the key is absent.
Stored(ss, k) == IF Has(ss, k) THEN ss[k] ELSE NoFrame
Outputs(ss) == [k \in OutputKeys |-> Stored(ss, k)]

\* C11: a run whose match failed (the selectors made the join fail) leaves
\* no partial work: the stored master and supplier relations are as the run
\* loaded them before the match, and the stored matched relation and mismatch
\* set are those of before the run.
C11_FailedMatchNoPartialWork ==
    [][step4' = "stopped" =>
          /\ session_state'.master_df = Ingest(master_file')
          /\ session_state'.supplier_df = Ingest(supplier_file')
          /\ Stored(session_state', "matched_df") = Stored(session_state, "matched_df")
          /\ Stored(session_state', "sku_mismatch_df")
                = Stored(session_state, "sku_mismatch_df")]_vars

\* C12: updated_df, unmatched_df, skus_updated and products_not_in_master
\* are created or changed only by a run in which the overwrite button was
\* clicked; uploads, selections, matches and plain reruns leave them alone.
C12_ReconciliationOnlyOnOverwrite ==
    [][Outputs(session_state') # Outputs(session_state) => overwrote']_vars

\* A match clicked after an overwrite: the outputs of the overwrite are
\* still stored.
C12_Witness ==
    /\ ~overwrote
    /\ step4 = "match"
    /\ \A k \in OutputKeys : Has(session_state, k)

\* C15: the stored mismatch set is the SKU-differing rows of the stored
\* matched relation; when the matched relation has no such row, no mismatch
\* set is stored.
C15_MismatchSetIsFresh ==
    Has(session_state, "matched_df") =>
        IF SkuMismatch(Matched).rows = <<>>
        THEN ~Has(session_state, "sku_mismatch_df")
        ELSE Stored(session_state, "sku_mismatch_df") = SkuMismatch(Matched)

\* C17: a run that executes the overwrite handler leaves the master and
\* supplier relations as the run loaded them, and the matched relation and
\* the mismatch set as they were stored; an overwrite that directly follows
\* an overwrite stores the same reconciled master, unmatched relation and
\* counts.
C17_OverwriteLeavesInputs ==
    [][overwrote' =>
          /\ session_state'.master_df = Ingest(master_file')
          /\ session_state'.supplier_df = Ingest(supplier_file')
          /\ session_state'.matched_df = session_state.matched_df
          /\ session_state'.sku_mismatch_df = session_state.sku_mismatch_df
          /\ overwrote => Outputs(session_state') = Outputs(session_state)]_vars

\* An overwrite that replaced a SKU: the reconciled master differs from the
\* stored master.
C17_Witness ==
    /\ overwrote
    /\ Updated # StoredMaster
    /\ StoredMaster = GivenMaster

\* The header the naming rule gives, read off the input: the k-th occurrence
\* of a label (k >= 2) becomes label_k, every other label stays.
OccurrenceNo(cols, i) == Cardinality({j \in 1..i : cols[j] = cols[i]})
NamedByRule(cols) ==
    [i \in 1..Len(cols) |->
        IF OccurrenceNo(cols, i) > 1
        THEN cols[i] \o <<"_">> \o IntToStr(OccurrenceNo(cols, i))
        ELSE cols[i]]

\* C16: rename_duplicate_columns keeps the first occurrence of every
\* repeated label, renames its k-th occurrence in encounter order (k >= 2)
\* to label_k, leaves the labels that occur once unchanged and keeps every
\* position.
C16_ResolverNamingRule ==
    rename_pc # "input" => resolved = NamedByRule(labels)

\* C14: the column names of every relation made available after ingestion
\* (load_file, then names trimmed and lowercased) are pairwise distinct.
C14_IngestedColumnsUnique ==
    load_pc = "loaded" => NoDuplicates(loaded.cols)

\* The product records of the source with all three sub-elements present.
CompleteProducts ==
    {j \in 1..Len(source.file.products) : ProductComplete(source.file.products[j])}

\* C18: a relation loaded from XML has no null cell, and it has one row per
\* product record that holds all three sub-fields.
C18_XmlNoPartialRows ==
    (load_pc = "loaded" /\ source.file_type = "xml") =>
        /\ \A i \in 1..Len(loaded.rows) : \A c \in 1..3 : loaded.rows[i][c] # Null
        /\ Len(loaded.rows) = Cardinality(CompleteProducts)

ID == <<"i", "d">>
SKU == <<"s", "k", "u">>

\* The overwrite ran with id as match key and sku as SKU on both sides, on
\* the matched relation and mismatch set of a match under these selectors.
MatchedThenOverwrote ==
    /\ overwrote
    /\ KeyM = ID /\ KeyS = ID /\ SkuM = SKU /\ SkuS = SKU
    /\ MatchNow.step4 = "match"
    /\ Matched = MatchNow.ss.matched_df
    /\ Mismatch = Stored(MatchNow.ss, "sku_mismatch_df")

\* C13: on master = [(1, A), (2, B)] and supplier = [(1, A2), (3, C)],
\* matching and then overwriting gives a matched relation of one row (key 1),
\* the mismatch set {(1, A, A2)}, the unmatched relation [(3, C)] and the
\* reconciled master [(1, A2), (2, B)].
C13_EndToEnd ==
    MatchedThenOverwrote =>
        /\ Column(Matched, MATCH_KEY) = <<Txt(<<"1">>)>>
        /\ Mismatch.cols = <<MATCH_KEY, MASTER_SKU, SUPPLIER_SKU>>
        /\ Mismatch.rows = << <<Txt(<<"1">>), Txt(<<"A">>), Txt(<<"A", "2">>)>> >>
        /\ session_state.unmatched_df.rows = <<GivenSupplier.rows[2]>>
        /\ Updated.rows
              = << <<GivenMaster.rows[1][1], Txt(<<"A", "2">>)>>, GivenMaster.rows[2] >>

====
